---- MODULE Spec2Model ----
(***************************************************************************)
(* MILV daily productivity dashboard: the load/clean stage (load_data of   *)
(* rvu.py and of app.py), the upload handling of rvu.py and the start of   *)
(* its display logic, as a state machine over Streamlit script runs.       *)
(*                                                                         *)
(* Strings are sequences of one-character strings, so that strip, lower    *)
(* and title are computed character by character as Python computes them.  *)
(* Numbers are fixed-point, counted in halves (1 = 0.5, 2 = 1.0, 3 = 1.5), *)
(* timestamps are counted in half days (2*d = midnight of day d, 2*d+1 =   *)
(* noon of day d).                                                          *)
(***************************************************************************)
EXTENDS Integers, Sequences, FiniteSets

VARIABLES prog, uploads, stored, cache, pc, df, run, messages, display_cols

vars == <<prog, uploads, stored, cache, pc, df, run, messages, display_cols>>

(***************************************************************************)
(* Bounds of the model.                                                    *)
(***************************************************************************)
\* rows per uploaded sheet in the row-focused universe
MaxRows == 2
\* uploads per session in the session universe
MaxUploads == 2
\* header cells that deviate from the usual spelling, per sheet
MaxPerturbed == 2

(***************************************************************************)
(* Python str: strip, lower, title.                                        *)
(***************************************************************************)
LowerLetters ==
  <<"a","b","c","d","e","f","g","h","i","j","k","l","m",
    "n","o","p","q","r","s","t","u","v","w","x","y","z">>

UpperLetters ==
  <<"A","B","C","D","E","F","G","H","I","J","K","L","M",
    "N","O","P","Q","R","S","T","U","V","W","X","Y","Z">>

LowerSet == {LowerLetters[i] : i \in 1..26}

UpperSet == {UpperLetters[i] : i \in 1..26}

Whitespace == {" ", "\t", "\n"}

IsCased(c) == c \in LowerSet \/ c \in UpperSet

CharLower(c) ==
  IF c \in UpperSet
  THEN LowerLetters[CHOOSE i \in 1..26 : UpperLetters[i] = c]
  ELSE c

CharUpper(c) ==
  IF c \in LowerSet
  THEN UpperLetters[CHOOSE i \in 1..26 : LowerLetters[i] = c]
  ELSE c

\* str.lower()
Lower(s) == [i \in 1..Len(s) |-> CharLower(s[i])]

RECURSIVE LStrip(_)
LStrip(s) ==
  IF s # <<>> /\ Head(s) \in Whitespace THEN LStrip(Tail(s)) ELSE s

RECURSIVE RStrip(_)
RStrip(s) ==
  IF s # <<>> /\ s[Len(s)] \in Whitespace
  THEN RStrip(SubSeq(s, 1, Len(s) - 1))
  ELSE s

\* a plausible slip: only the leading whitespace is removed
StripLeadingOnly(s) == LStrip(s)

\* str.strip()
Strip(s) == RStrip(LStrip(s))

\* a plausible slip: the first letter of each word is raised, the rest kept
TitleKeepRest(s) ==
  [i \in 1..Len(s) |->
     IF i > 1 /\ IsCased(s[i-1]) THEN s[i] ELSE CharUpper(s[i])]

\* str.title(): a cased character is lowered after a cased character and
\* raised otherwise
Title(s) ==
  [i \in 1..Len(s) |->
     IF i > 1 /\ IsCased(s[i-1]) THEN CharLower(s[i]) ELSE CharUpper(s[i])]

(***************************************************************************)
(* The required columns.                                                   *)
(***************************************************************************)
F_date      == <<"d","a","t","e">>
F_author    == <<"a","u","t","h","o","r">>
F_procedure == <<"p","r","o","c","e","d","u","r","e">>
F_points    == <<"p","o","i","n","t","s">>
F_shift     == <<"s","h","i","f","t">>
F_pointsHD  == <<"p","o","i","n","t","s","/","h","a","l","f"," ","d","a","y">>
F_procHalf  == <<"p","r","o","c","e","d","u","r","e","/","h","a","l","f">>

\* the order of the usual sheet
FieldOrder ==
  <<F_date, F_author, F_procedure, F_points, F_shift, F_pointsHD, F_procHalf>>

REQUIRED_COLUMNS == {FieldOrder[i] : i \in 1..Len(FieldOrder)}

NumericFields == REQUIRED_COLUMNS \ {F_date, F_author}

(***************************************************************************)
(* Cells of a sheet, and the pandas conversions load_data applies to them. *)
(* A text cell carries its characters (s) and what pandas reads in it (p): *)
(* "date" with the timestamp n, "num" with the number n, "inf", or "none". *)
(***************************************************************************)
Cell(k, n, s, p) == [k |-> k, n |-> n, s |-> s, p |-> p]

\* a blank cell: NaN
Empty == Cell("empty", 0, <<>>, "none")

NaT == Cell("nat", 0, <<>>, "none")

Inf == Cell("inf", 0, <<>>, "none")

\* a timestamp, in half days
Ts(h) == Cell("ts", h, <<>>, "none")

\* a number, in halves
Num(h) == Cell("num", h, <<>>, "none")

Str(s) == Cell("text", 0, s, "none")

DateText(s, h) == Cell("text", h, s, "date")

NumText(s, h) == Cell("text", h, s, "num")

InfText == Cell("text", 0, <<"i","n","f">>, "inf")

\* pandas isna
IsNA(c) == c.k \in {"empty", "nat"}

\* pd.to_datetime(..., errors="coerce") on one cell; a bare number is read
\* as an offset from the epoch
ToDatetime(c) ==
  CASE c.k = "ts" -> c
    [] c.k = "text" /\ c.p = "date" -> Ts(c.n)
    [] c.k = "num" -> Ts(0)
    [] OTHER -> NaT

\* .dt.normalize(): the time of day is set to midnight
Normalize(c) == IF c.k = "ts" THEN Ts((c.n \div 2) * 2) ELSE c

\* pd.to_numeric(..., errors='coerce') on one cell
ToNumeric(c) ==
  CASE c.k = "num" -> c
    [] c.k = "inf" -> c
    [] c.k = "text" /\ c.p = "num" -> Num(c.n)
    [] c.k = "text" /\ c.p = "inf" -> Inf
    [] OTHER -> Empty

\* .fillna(0)
FillNa0(c) == IF IsNA(c) THEN Num(0) ELSE c

\* pd.to_numeric(df[col], errors='coerce').fillna(0)
NumericCell(c) == FillNa0(ToNumeric(c))

Digits == <<"0","1","2","3","4","5","6","7","8","9">>

\* str(x) of a float below 10
FloatStr(h) ==
  <<Digits[((h \div 2) % 10) + 1], ".", IF h % 2 = 0 THEN "0" ELSE "5">>

\* .astype(str) on one cell: a missing value becomes the text "nan"
AsTypeStr(c) ==
  CASE c.k = "text" -> Str(c.s)
    [] c.k = "empty" -> Str(<<"n","a","n">>)
    [] c.k = "nat" -> Str(<<"N","a","T">>)
    [] c.k = "inf" -> Str(<<"i","n","f">>)
    [] OTHER -> Str(FloatStr(c.n))

\* .astype(str).str.strip().str.title()
AuthorCell(c) == Str(Title(Strip(AsTypeStr(c).s)))

\* .astype(int) on one finite value: the fraction is cut off
AsTypeInt(c) == Num((c.n \div 2) * 2)

(***************************************************************************)
(* Sheets and data frames.                                                 *)
(***************************************************************************)
Sheet(headers, rows) == [kind |-> "xlsx", headers |-> headers, rows |-> rows]

\* no file at the storage path
NoFile == [kind |-> "none", headers |-> <<>>, rows |-> <<>>]

\* a file that is no workbook (truncated by a failed write)
Corrupt == [kind |-> "corrupt", headers |-> <<>>, rows |-> <<>>]

Frame(columns, rows) == [kind |-> "df", columns |-> columns, rows |-> rows]

None == [kind |-> "None", columns |-> <<>>, rows |-> <<>>]

\* the name df is not bound
Unbound == [kind |-> "unbound", columns |-> <<>>, rows |-> <<>>]

Range(f) == {f[i] : i \in DOMAIN f}

\* xls.parse(xls.sheet_names[0]): the rows get the index 0, 1, ...
Parse(file) ==
  Frame(file.headers,
        [i \in 1..Len(file.rows) |-> [idx |-> i - 1, cells |-> file.rows[i]]])

\* the positions of the columns with this label
Positions(columns, label) == {i \in 1..Len(columns) : columns[i] = label}

Pos(columns, label) == CHOOSE i \in Positions(columns, label) : TRUE

\* df[label] is a single column (a Series), not a DataFrame
IsSeries(columns, label) == Cardinality(Positions(columns, label)) = 1

\* df[col] = pd.to_datetime(df[col], errors="coerce").dt.normalize()
ConvertDate(d, p) ==
  [d EXCEPT !.rows =
     [r \in 1..Len(d.rows) |->
        [d.rows[r] EXCEPT !.cells = [@ EXCEPT ![p] = Normalize(ToDatetime(@))]]]]

\* df[col] = pd.to_numeric(df[col], errors='coerce').fillna(0)
ConvertNumericColumn(d, p) ==
  [d EXCEPT !.rows =
     [r \in 1..Len(d.rows) |->
        [d.rows[r] EXCEPT !.cells = [@ EXCEPT ![p] = NumericCell(@)]]]]

\* df[col] = df[col].astype(str).str.strip().str.title()
CleanAuthor(d, p) ==
  [d EXCEPT !.rows =
     [r \in 1..Len(d.rows) |->
        [d.rows[r] EXCEPT !.cells = [@ EXCEPT ![p] = AuthorCell(@)]]]]

\* df["shift"] = ... .astype(int)
ShiftToInt(d, p) ==
  [d EXCEPT !.rows =
     [r \in 1..Len(d.rows) |->
        [d.rows[r] EXCEPT !.cells = [@ EXCEPT ![p] = AsTypeInt(@)]]]]

\* a plausible slip: dropna() without subset drops a row for any missing cell
DropNaAny(d, p) ==
  [d EXCEPT !.rows =
     SelectSeq(d.rows, LAMBDA r : \A i \in 1..Len(r.cells) : ~IsNA(r.cells[i]))]

\* df.dropna(subset=[col])
DropNa(d, p) ==
  [d EXCEPT !.rows = SelectSeq(d.rows, LAMBDA r : ~IsNA(r.cells[p]))]

RECURSIVE ConvertNumeric(_, _)
\* the loop over the numeric columns (a set of positions)
ConvertNumeric(d, ps) ==
  IF ps = {} THEN d
  ELSE LET p == CHOOSE q \in ps : TRUE
       IN  ConvertNumeric(ConvertNumericColumn(d, p), ps \ {p})

(***************************************************************************)
(* load_data.  A result records what one execution of the body computed:   *)
(* the file read, the outcome ("ok", "missing": st.error names the missing *)
(* columns, "error": the except branch), the names st.error shows, the     *)
(* relabelled columns, col_mapping, and the value returned.                *)
(***************************************************************************)
EmptyMap == [k \in {} |-> <<>>]

Result(file, outcome, names, columns, cm, ret) ==
  [file |-> file, outcome |-> outcome, names |-> names,
   columns |-> columns, col_mapping |-> cm, ret |-> ret]

\* the body of load_data did not run
NoRun == Result(NoFile, "none", {}, <<>>, EmptyMap, None)

\* a plausible slip: the check stops at the first missing column
MissingFirstOnly(lower_columns) ==
  LET all == {c \in REQUIRED_COLUMNS : c \notin Range(lower_columns)}
  IN  IF all = {} THEN {} ELSE {CHOOSE c \in all : TRUE}

\* [col for col in required_columns if col not in lower_columns.values]
missing_columns(lower_columns) ==
  {c \in REQUIRED_COLUMNS : c \notin Range(lower_columns)}

\* {col.lower(): col for col in df.columns}: a later column overwrites an
\* earlier one with the same key
col_mapping(columns) ==
  [k \in {Lower(columns[i]) : i \in 1..Len(columns)} |->
     columns[CHOOSE i \in 1..Len(columns) :
               /\ Lower(columns[i]) = k
               /\ \A j \in 1..Len(columns) : Lower(columns[j]) = k => j <= i]]

\* the result of the except branch
Failed(file, columns, cm) == Result(file, "error", {}, columns, cm, None)

\* rvu.py load_data, lines 41-62: the conversions.  df[col] with a repeated
\* label is a DataFrame: to_datetime, to_numeric and .str raise on it
RvuConvert(file, d, cm) ==
  IF \E f \in REQUIRED_COLUMNS : ~IsSeries(d.columns, cm[f])
  THEN Failed(file, d.columns, cm)
  ELSE Result(file, "ok", {}, d.columns, cm,
         CleanAuthor(
           ConvertNumeric(
             DropNa(ConvertDate(d, Pos(d.columns, cm[F_date])),
                    Pos(d.columns, cm[F_date])),
             {Pos(d.columns, cm[f]) : f \in NumericFields}),
           Pos(d.columns, cm[F_author])))

\* rvu.py load_data, lines 27-39: the check of the required columns
RvuCheck(file, d, missing) ==
  IF missing # {}
  THEN Result(file, "missing", {Title(c) : c \in missing}, d.columns, EmptyMap, None)
  ELSE RvuConvert(file, d, col_mapping(d.columns))

\* rvu.py load_data, lines 23-25: the column names are stripped
RvuColumns(file, columns) ==
  RvuCheck(file, Frame(columns, Parse(file).rows),
           missing_columns([i \in 1..Len(columns) |-> Lower(columns[i])]))

\* rvu.py load_data; a file that is no workbook makes pd.ExcelFile raise
LoadRvu(file) ==
  IF file.kind # "xlsx"
  THEN Failed(file, <<>>, EmptyMap)
  ELSE RvuColumns(file, [i \in 1..Len(file.headers) |-> Strip(file.headers[i])])

\* app.py load_data, line 44: the shift as an integer
AppShift(file, d, twice, shift) ==
  IF \E r \in 1..Len(d.rows) : d.rows[r].cells[shift].k = "inf"
  THEN {Failed(file, d.columns, EmptyMap)}
  ELSE {Result(file, "ok", {}, d.columns, EmptyMap, ShiftToInt(d, shift))}
         \cup (IF twice # {} THEN {Failed(file, d.columns, EmptyMap)} ELSE {})

\* app.py load_data, lines 38-46: the conversions.  A label that occurs
\* twice makes df["date"], df["author"] and df["shift"] a DataFrame, on
\* which the conversion raises; a numeric label that occurs twice makes
\* df[numeric_cols] = ... raise or not with the iteration order of the set
\* of column names; .astype(int) raises on a non-finite value
AppConvert(file, d, twice, shift) ==
  IF twice \cap {F_date, F_author, F_shift} # {} \/ Cardinality(twice) > 1
  THEN {Failed(file, d.columns, EmptyMap)}
  ELSE AppShift(file,
         CleanAuthor(
           ConvertNumeric(
             DropNa(ConvertDate(d, Pos(d.columns, F_date)), Pos(d.columns, F_date)),
             UNION {Positions(d.columns, f) : f \in NumericFields}),
           Pos(d.columns, F_author)),
         twice, shift)

\* app.py load_data, lines 32-36: the check of the required columns
AppCheck(file, d, missing) ==
  IF missing # {}
  THEN {Result(file, "missing", {Title(c) : c \in missing}, d.columns, EmptyMap, None)}
  ELSE AppConvert(file, d, {f \in REQUIRED_COLUMNS : ~IsSeries(d.columns, f)},
                  Pos(d.columns, F_shift))

\* app.py load_data, line 32: the column names are stripped and lowered
AppColumns(file, columns) ==
  AppCheck(file, Frame(columns, Parse(file).rows), REQUIRED_COLUMNS \ Range(columns))

\* app.py load_data (the body under the cache): the set of its outcomes
LoadApp(file) ==
  IF file.kind # "xlsx"
  THEN {Failed(file, <<>>, EmptyMap)}
  ELSE AppColumns(file, [i \in 1..Len(file.headers) |-> Lower(Strip(file.headers[i]))])

Msg(kind, names) == [kind |-> kind, names |-> names]

\* what load_data shows: st.error in the missing-column and except branches
LoadMessages(res) ==
  CASE res.outcome = "missing" -> {Msg("missing_columns", res.names)}
    [] res.outcome = "error" -> {Msg("load_error", {})}
    [] OTHER -> {}

\* st.cache_data: one entry for the one path load_data is called with
NoEntry == [full |-> FALSE, ret |-> None, msgs |-> {}]

(***************************************************************************)
(* The start of the display logic of rvu.py.                               *)
(***************************************************************************)
\* [col for col in df.columns if col.lower() == name][0]
FirstColumn(columns, name) ==
  columns[CHOOSE i \in 1..Len(columns) :
            /\ Lower(columns[i]) = name
            /\ \A j \in 1..Len(columns) : Lower(columns[j]) = name => i <= j]

Permutations(n) ==
  {q \in [1..n -> 1..n] : \A i, j \in 1..n : q[i] = q[j] => i = j}

\* the sort key of a cell: missing values go last
SortKey(c) == IF c.k = "ts" THEN c.n ELSE 1000000

\* text among the timestamps cannot be ordered: sort_values raises
Sortable(d, p) ==
  \A r \in 1..Len(d.rows) : d.rows[r].cells[p].k \in {"ts", "empty", "nat"}

\* df.sort_values(col): the rows in ascending order of the column; the
\* default sort is not stable, so rows with equal keys come in any order
SortValues(d, p) ==
  {[d EXCEPT !.rows = [i \in 1..Len(d.rows) |-> d.rows[q[i]]]] :
     q \in {q \in Permutations(Len(d.rows)) :
              \A i \in 1..(Len(d.rows) - 1) :
                 SortKey(d.rows[q[i]].cells[p]) <= SortKey(d.rows[q[i+1]].cells[p])}}

(***************************************************************************)
(* The sheets an operator uploads.                                         *)
(***************************************************************************)
Upper(s) == [i \in 1..Len(s) |-> CharUpper(s[i])]

\* spellings of a header: 0 the usual one; 1, 2 differ from it in case and
\* surrounding whitespace; 3, 4, 5 are other headers; 6 is the usual one
\* with a leading blank
Variant(f, k) ==
  CASE k = 0 -> Title(f)
    [] k = 1 -> Upper(f)
    [] k = 2 -> <<" ">> \o f \o <<"\t">>
    [] k = 3 -> <<f[1], " ">> \o Tail(f)
    [] k = 4 -> f \o <<"s">>
    [] OTHER -> <<" ">> \o Title(f)

PerturbedKinds == 1..4

\* an added column: none (<<0, 0>>) or a second spelling of field i (of
\* the date, the author, the points or the shift)
Extras == {<<0, 0>>} \cup {<<i, k>> : i \in {1, 2, 4, 5}, k \in {1, 6}}

HeaderRow(v, x) ==
  [i \in 1..Len(FieldOrder) |-> Variant(FieldOrder[i], v[i])]
    \o (IF x[1] = 0 THEN <<>> ELSE <<Variant(FieldOrder[x[1]], x[2])>>)

\* pandas renames a header that repeats an earlier one exactly, so the
\* headers of a parsed sheet are pairwise different
Distinct(h) == \A i, j \in 1..Len(h) : h[i] = h[j] => i = j

Assignments(maxPerturbed) ==
  {v \in [1..Len(FieldOrder) -> {0} \cup PerturbedKinds] :
     Cardinality({i \in 1..Len(FieldOrder) : v[i] # 0}) <= maxPerturbed}

\* the content of a row, by field
Content(date, author, num) == [date |-> date, author |-> author, num |-> num]

FieldCell(rc, f) ==
  IF f = F_date THEN rc.date ELSE IF f = F_author THEN rc.author ELSE rc.num[f]

\* the cell of the added column in row j
ExtraCell(i, j) ==
  LET f == FieldOrder[i]
  IN  IF f = F_date THEN (IF j % 2 = 1 THEN Str(<<"n","/","a">>) ELSE Ts(6))
      ELSE IF f = F_author THEN (IF j % 2 = 1 THEN Empty ELSE Str(<<"b","o">>))
      ELSE (IF j % 2 = 1 THEN Empty ELSE Num(1))

SheetRows(contents, x) ==
  [j \in 1..Len(contents) |->
     [i \in 1..Len(FieldOrder) |-> FieldCell(contents[j], FieldOrder[i])]
       \o (IF x[1] = 0 THEN <<>> ELSE <<ExtraCell(x[1], j)>>)]

MakeSheet(v, x, contents) == Sheet(HeaderRow(v, x), SheetRows(contents, x))

Usual == [i \in 1..Len(FieldOrder) |-> 0]

DefaultRow ==
  Content(Ts(3), Str(<<"a","l">>), [f \in NumericFields |-> Num(2)])

BadDateRow == [DefaultRow EXCEPT !.date = Str(<<"n","/","a">>)]

HalfShiftRow == [DefaultRow EXCEPT !.num[F_shift] = Num(1), !.date = Ts(8)]

DateCells == {Ts(3), DateText(<<"3","/","5">>, 10), Str(<<"n","/","a">>), Empty}

AuthorCells ==
  {Str(<<"a","l">>), Str(<<"A","L">>), Str(<<" ","a","l","\t">>),
   Str(<<"a","L"," ","o","'","b">>), Str(<<" ">>), Empty}

NumericCells == {Num(1), NumText(<<"1",".","5">>, 3), Str(<<"x">>), Empty, InfText}

\* rows that differ from the default row in one cell
RowPool ==
  {[DefaultRow EXCEPT !.date = c] : c \in DateCells}
    \cup {[DefaultRow EXCEPT !.author = c] : c \in AuthorCells}
    \cup {[DefaultRow EXCEPT !.num[F_shift] = c] : c \in NumericCells}
    \cup {[DefaultRow EXCEPT !.num[F_points] = Empty],
          [DefaultRow EXCEPT !.num[F_procHalf] = Num(3)]}

SeqsUpTo(S, n) == UNION {[1..m -> S] : m \in 0..n}

\* sheets that differ in their headers
HeaderSheets ==
  {sh \in {MakeSheet(v, x, <<DefaultRow, BadDateRow>>) :
             v \in Assignments(MaxPerturbed),
             x \in Extras} : Distinct(sh.headers)}

\* sheets that differ in their rows
RowSheets == {MakeSheet(Usual, <<0, 0>>, rows) : rows \in SeqsUpTo(RowPool, MaxRows)}

\* the sheets of a session with several uploads
SessionSheets ==
  {MakeSheet(v, x, rows) :
     v \in {Usual, [Usual EXCEPT ![5] = 4]},
     x \in {<<0, 0>>, <<1, 1>>},
     rows \in {<<DefaultRow>>, <<DefaultRow, BadDateRow>>, <<HalfShiftRow>>}}

(***************************************************************************)
(* The state machine.  prog is the script that runs (rvu.py or app.py);    *)
(* uploads are the sheets the operator will upload; stored is the file at  *)
(* the storage path; cache is the st.cache_data entry of app.py; pc is the *)
(* position of the script run; df, display_cols and messages are the       *)
(* script's variables and what it has shown in this run; run is what the   *)
(* body of load_data computed in this run.                                 *)
(***************************************************************************)
InitRest ==
  /\ prog \in {"rvu", "app"}
  /\ stored = NoFile
  /\ cache = NoEntry
  /\ pc = "idle"
  /\ df = Unbound
  /\ run = NoRun
  /\ messages = {}
  /\ display_cols = EmptyMap

Init == uploads \in SeqsUpTo(SessionSheets, MaxUploads) /\ InitRest

InitHeaders == uploads \in {<<sh>> : sh \in HeaderSheets} /\ InitRest

InitRows == uploads \in {<<sh>> : sh \in RowSheets} /\ InitRest

\* rvu.py, a script run with an uploaded file: lines 159-167
RvuUpload ==
  /\ prog = "rvu"
  /\ pc # "loaded"
  /\ uploads # <<>>
  /\ uploads' = Tail(uploads)
  /\ \/ /\ stored' = Head(uploads)
        /\ run' = LoadRvu(stored')
        /\ df' = run'.ret
        /\ messages' = LoadMessages(run') \cup
             (IF df' # None THEN {Msg("success", {})} ELSE {})
     \/ \* open() raises and the old file stays, or write() raises and the
        \* file is left truncated; df is not assigned
        /\ stored' \in {stored, Corrupt}
        /\ run' = NoRun
        /\ df' = Unbound
        /\ messages' = {Msg("upload_failed", {})}
  /\ pc' = "loaded"
  /\ display_cols' = EmptyMap
  /\ UNCHANGED <<prog, cache>>

\* rvu.py, a script run without an uploaded file: lines 168-171
RvuRerun ==
  /\ prog = "rvu"
  /\ pc # "loaded"
  /\ IF stored.kind # "none"
     THEN /\ run' = LoadRvu(stored)
          /\ df' = run'.ret
          /\ messages' = LoadMessages(run')
     ELSE /\ run' = NoRun
          /\ df' = None
          /\ messages' = {}
  /\ pc' = "loaded"
  /\ display_cols' = EmptyMap
  /\ UNCHANGED <<prog, uploads, stored, cache>>

\* rvu.py, lines 173-186: the test of df, display_cols, the sort by date
Display ==
  /\ prog = "rvu"
  /\ pc = "loaded"
  /\ IF df = Unbound
     THEN \* NameError
          /\ pc' = "crashed"
          /\ UNCHANGED <<df, display_cols>>
     ELSE IF df = None
     THEN /\ pc' = "done"
          /\ UNCHANGED <<df, display_cols>>
     ELSE LET cols == [f \in REQUIRED_COLUMNS |-> FirstColumn(df.columns, f)]
              p == Pos(df.columns, cols[F_date])
          IN  /\ display_cols' = cols
              /\ IF Sortable(df, p)
                 THEN /\ df' \in SortValues(df, p)
                      /\ pc' = "displayed"
                 ELSE /\ df' = df
                      /\ pc' = "crashed"
  /\ UNCHANGED <<prog, uploads, stored, cache, run, messages>>

\* app.py, a call of load_data(FILE_PATH) under st.cache_data: the entry of
\* the path is returned, and its st.error replayed, when there is one
CachedLoad ==
  IF cache.full
  THEN /\ run' = NoRun
       /\ df' = cache.ret
       /\ messages' = cache.msgs
       /\ cache' = cache
  ELSE /\ run' \in LoadApp(stored')
       /\ df' = run'.ret
       /\ messages' = LoadMessages(run')
       /\ cache' = [full |-> TRUE, ret |-> df', msgs |-> messages']

\* app.py: an upload is written to FILE_PATH and loaded
AppUpload ==
  /\ prog = "app"
  /\ uploads # <<>>
  /\ uploads' = Tail(uploads)
  /\ stored' = Head(uploads)
  /\ CachedLoad
  /\ pc' = "done"
  /\ UNCHANGED <<prog, display_cols>>

\* app.py: a script run that loads the file already at FILE_PATH
AppRerun ==
  /\ prog = "app"
  /\ stored.kind # "none"
  /\ stored' = stored
  /\ CachedLoad
  /\ pc' = "done"
  /\ UNCHANGED <<prog, uploads, display_cols>>

Next == RvuUpload \/ RvuRerun \/ Display \/ AppUpload \/ AppRerun

Spec == Init /\ [][Next]_vars

SpecHeaders == InitHeaders /\ [][Next]_vars

SpecRows == InitRows /\ [][Next]_vars

(***************************************************************************)
(* What the claims speak of, stated without the code's own operators.      *)
(***************************************************************************)
\* a and b are the same up to the case of their letters
SameUpToCase(a, b) ==
  /\ Len(a) = Len(b)
  /\ \A k \in 1..Len(a) :
       \/ a[k] = b[k]
       \/ \E i \in 1..26 : {a[k], b[k]} = {LowerLetters[i], UpperLetters[i]}

\* the positions of the characters of h that are not whitespace
Ink(h) == {k \in 1..Len(h) : h[k] \notin Whitespace}

\* h without its leading and trailing whitespace
Trimmed(h) ==
  IF Ink(h) = {} THEN <<>>
  ELSE SubSeq(h, CHOOSE a \in Ink(h) : \A k \in Ink(h) : a <= k,
                 CHOOSE b \in Ink(h) : \A k \in Ink(h) : k <= b)

\* t is h without its leading and trailing whitespace
IsTrimOf(h, t) == t = Trimmed(h)

\* header h names field f up to case and surrounding whitespace
MatchesField(h, f) ==
  \E a \in 1..(Len(h) + 1) :
    LET b == a + Len(f) - 1
    IN  /\ b <= Len(h)
        /\ \A k \in 1..(a - 1) : h[k] \in Whitespace
        /\ \A k \in (b + 1)..Len(h) : h[k] \in Whitespace
        /\ SameUpToCase(SubSeq(h, a, b), f)

Unmatched(headers) ==
  {f \in REQUIRED_COLUMNS : ~\E i \in 1..Len(headers) : MatchesField(headers[i], f)}

\* the body of load_data ran on a workbook in this script run
BodyRan == run.outcome # "none" /\ run.file.kind = "xlsx"

\* the column the body resolved field f to
Resolved(f) == IF prog = "rvu" THEN run.col_mapping[f] ELSE f

\* two names that differ only in case or surrounding whitespace
SameName(x, y) == SameUpToCase(Trimmed(x), Trimmed(y))

\* the cell pandas reads a date in
ParsableDate(c) == c.k = "ts" \/ (c.k = "text" /\ c.p = "date")

\* the cell of the source sheet behind row j of the returned frame, in the
\* column the body resolved field f to
SourceCell(j, f) ==
  run.file.rows[run.ret.rows[j].idx + 1][Pos(run.columns, Resolved(f))]

ReturnedCell(j, f) == run.ret.rows[j].cells[Pos(run.columns, Resolved(f))]

(***************************************************************************)
(* C1. When every required name occurs among the headers up to case and    *)
(* surrounding whitespace, load_data reports no missing column, and each   *)
(* field is resolved to a column of the trimmed table whose source header  *)
(* names that field.                                                       *)
(***************************************************************************)
C1_HeaderMatching ==
  (BodyRan /\ Unmatched(run.file.headers) = {}) =>
    /\ run.outcome # "missing"
    /\ \A f \in REQUIRED_COLUMNS :
         \E i \in 1..Len(run.file.headers) :
           /\ run.columns[i] = Resolved(f)
           /\ MatchesField(run.file.headers[i], f)
           /\ prog = "rvu" => IsTrimOf(run.file.headers[i], run.columns[i])

\* a sheet whose date header is padded and whose author header is in
\* capitals was loaded
C1_Witness ==
  /\ run.outcome = "ok"
  /\ run.file.headers[1] = <<" ","d","a","t","e","\t">>
  /\ run.file.headers[2] = <<"A","U","T","H","O","R">>

(***************************************************************************)
(* C2. When some required column is not matched, load_data shows an error  *)
(* that names exactly the unmatched fields and returns None, and the       *)
(* display logic gets no table.                                            *)
(***************************************************************************)
C2_Holds(unmatched) ==
  (BodyRan /\ unmatched # {}) =>
    /\ run.outcome = "missing"
    /\ run.ret = None
    /\ \E m \in messages :
         /\ m.kind = "missing_columns"
         /\ \A f \in REQUIRED_COLUMNS :
              (\E nm \in m.names : SameUpToCase(nm, f)) <=> f \in unmatched
         /\ \A nm \in m.names : \E f \in REQUIRED_COLUMNS : SameUpToCase(nm, f)
    /\ df = None
    /\ display_cols = EmptyMap
    /\ pc \notin {"displayed", "crashed"}

C2_MissingColumns == C2_Holds(Unmatched(run.file.headers))

\* a sheet without two of the required columns was loaded by rvu.py and
\* the display logic was skipped
C2_Witness ==
  /\ prog = "rvu"
  /\ run.outcome = "missing"
  /\ Cardinality(Unmatched(run.file.headers)) = 2
  /\ pc = "done"

(***************************************************************************)
(* C3. The rows a successful load_data returns are the rows of the sheet   *)
(* whose date cell parses, in the order of the sheet, and none of them has *)
(* a null date.                                                            *)
(***************************************************************************)
C3_RowsKept ==
  run.outcome = "ok" =>
    /\ [j \in 1..Len(run.ret.rows) |-> run.ret.rows[j].idx]
         = SelectSeq([i \in 1..Len(run.file.rows) |-> i - 1],
                     LAMBDA i : ParsableDate(
                        run.file.rows[i + 1][Pos(run.columns, Resolved(F_date))]))
    /\ \A j \in 1..Len(run.ret.rows) : ReturnedCell(j, F_date).k = "ts"

\* of two rows, the one with the unparsable date was dropped and the one
\* with an unparsable shift cell was kept
C3_Witness ==
  /\ run.outcome = "ok"
  /\ Len(run.file.rows) = 2
  /\ ~ParsableDate(run.file.rows[1][1])
  /\ run.file.rows[2][5] = Str(<<"x">>)
  /\ Len(run.ret.rows) = 1
  /\ run.ret.rows[1].idx = 1

(***************************************************************************)
(* C4. When load_data drops rows whose date did not parse, the script run  *)
(* shows a message that reports the dropped rows.                          *)
(***************************************************************************)
C4_DropsReported ==
  (run.outcome = "ok" /\ Len(run.ret.rows) < Len(run.file.rows)) =>
    \E m \in messages : m.kind = "rows_dropped"

(***************************************************************************)
(* C5. Two author names that differ only in case or surrounding whitespace *)
(* get the same key, and normalizing a key again leaves it unchanged.      *)
(***************************************************************************)
C5_AuthorKey ==
  run.outcome = "ok" =>
    /\ \A a, b \in 1..Len(run.ret.rows) :
         (/\ SourceCell(a, F_author).k = "text"
          /\ SourceCell(b, F_author).k = "text"
          /\ SameName(SourceCell(a, F_author).s, SourceCell(b, F_author).s))
           => ReturnedCell(a, F_author) = ReturnedCell(b, F_author)
    /\ \A a \in 1..Len(run.ret.rows) :
         AuthorCell(ReturnedCell(a, F_author)) = ReturnedCell(a, F_author)

\* two rows whose authors are written differently got one key
C5_Witness ==
  /\ run.outcome = "ok"
  /\ Len(run.ret.rows) = 2
  /\ SourceCell(1, F_author) = Str(<<"A","L">>)
  /\ SourceCell(2, F_author) = Str(<<" ","a","l","\t">>)
  /\ ReturnedCell(1, F_author) = ReturnedCell(2, F_author)

(***************************************************************************)
(* C6. An empty, missing or blank author cell gets a null key.             *)
(***************************************************************************)
C6_NullAuthor ==
  run.outcome = "ok" =>
    \A j \in 1..Len(run.ret.rows) :
      (\/ SourceCell(j, F_author).k = "empty"
       \/ /\ SourceCell(j, F_author).k = "text"
          /\ \A k \in 1..Len(SourceCell(j, F_author).s) :
               SourceCell(j, F_author).s[k] \in Whitespace)
        => IsNA(ReturnedCell(j, F_author))

(***************************************************************************)
(* C7. The table a call of load_data returns is the one computed from the  *)
(* file that is at the storage path at the time of the call.               *)
(***************************************************************************)
C7_FreshResult ==
  /\ (prog = "rvu" /\ pc = "loaded" /\ df # Unbound /\ stored.kind # "none")
       => df = LoadRvu(stored).ret
  /\ (prog = "app" /\ pc = "done")
       => df \in {res.ret : res \in LoadApp(stored)}

(***************************************************************************)
(* C8. When the display logic tests df, df is a loaded table or None.      *)
(***************************************************************************)
C8_DfDefined == pc = "loaded" => df # Unbound

(***************************************************************************)
(* C9. After a successful load every numeric field of every kept row is    *)
(* the number in the cell when the cell parses as a number, and 0 when the *)
(* cell is empty or unparsable.                                            *)
(***************************************************************************)
C9_NumericFields ==
  run.outcome = "ok" =>
    \A j \in 1..Len(run.ret.rows), f \in NumericFields :
      LET c == SourceCell(j, f)
      IN  ReturnedCell(j, f) =
            (CASE c.k = "num" -> Num(c.n)
               [] c.k = "text" /\ c.p = "num" -> Num(c.n)
               [] c.k = "text" /\ c.p = "inf" -> Inf
               [] OTHER -> Num(0))

(***************************************************************************)
(* C10. The column the display logic resolves for a field is the column    *)
(* load_data resolved and converted for it.                                *)
(***************************************************************************)
C10_SameColumn ==
  display_cols # EmptyMap =>
    \A f \in REQUIRED_COLUMNS : display_cols[f] = run.col_mapping[f]

====
